---- MODULE Spec2Model ----
(***************************************************************************)
(* Model of pkg/operator/status.go: the StatusReporter of the              *)
(* cluster-autoscaler-operator.  The reporter keeps a ClusterOperator      *)
(* record ("co") in the API server, checks the machine-api ClusterOperator *)
(* ("mao") and polls until the operator can be reported Available.         *)
(*                                                                         *)
(* Every method of the reporter is an operator that takes the store it     *)
(* reads, the outcome of each API call it may make, and returns its Go     *)
(* results together with the store it leaves behind and the API calls it   *)
(* made.  Spec runs Report (the poll loop), OpsSpec calls the exported     *)
(* status methods one at a time, VersionsSpec and MaoSpec call             *)
(* IsDifferentVersions and CheckMachineAPI on every input.                 *)
(***************************************************************************)
EXTENDS Integers, Sequences, FiniteSets, TLC

VARIABLES
    co,             \* the ClusterOperator record named OperatorName in the store
    mao,            \* the machine-api ClusterOperator record in the store
    relatedObjects, \* StatusReporter.relatedObjects
    stopCh,         \* TRUE once the caller closed stopCh
    now,            \* what time.Now() returns
    pc,             \* where Report is: "idle", "started", "polling", or returned:
                    \* "success", "cancelled", "error"
    ret,            \* the error Report returned ("none" while it has not returned)
    tock,           \* flips at every call of the poll function
    last            \* the reporter's most recent operation and what it did

vars == <<co, mao, relatedObjects, stopCh, now, pc, ret, tock, last>>

----------------------------------------------------------------------------
(* Bounds *)

\* longest version list another writer stores or a caller passes as desired
MaxVersions == 2

\* most conditions in the machine-api record
MaxMaoConds == 2

\* latest reading of the clock
MaxClock == 2

----------------------------------------------------------------------------
(* Constants of the program *)

ReasonEmpty == ""
ReasonMissingDependency == "MissingDependency"
ReasonSyncing == "SyncingResources"

\* version.Raw, the build version
Raw == "v1"

\* errors of the API client: nil, a not-found status error, any other error
NoErr == "nil"
ErrNotFound == "NotFound"
ErrServer == "ServerError"

\* wait.ErrWaitTimeout, "timed out waiting for the condition"
ErrWaitTimeout == "ErrWaitTimeout"

\* the zero metav1.Time, before every reading of the clock
ZeroTime == 0

----------------------------------------------------------------------------
(* Data *)

\* A Go slice: nil and the empty non-nil slice are different values.
NilSlice == [nil |-> TRUE, items |-> <<>>]
Slice(s) == [nil |-> FALSE, items |-> s]

OperandVersion(n, v) == [name |-> n, version |-> v]

\* a ClusterOperatorStatusCondition literal: LastTransitionTime is not set
Condition(t, s, r, m) ==
    [type |-> t, status |-> s, reason |-> r, message |-> m,
     lastTransitionTime |-> ZeroTime]

\* the zero value of ClusterOperatorStatus
EmptyStatus == [versions |-> NilSlice, relatedObjects |-> <<>>, conditions |-> <<>>]

\* no record of that name in the store
Absent == [exists |-> FALSE, status |-> EmptyStatus]

\* &ClusterOperator{ObjectMeta: {Name: OperatorName}}: a record with empty status
NewClusterOperator == [exists |-> TRUE, status |-> EmptyStatus]

----------------------------------------------------------------------------
(* Equality helpers *)

\* reflect.DeepEqual on two slices: a nil slice equals only a nil slice
ReflectDeepEqual(a, b) == a.nil = b.nil /\ a.items = b.items

\* equality.Semantic.DeepEqual on two statuses: nil and empty slices are
\* equal, conditions are compared field by field, their times as instants
SemanticDeepEqual(a, b) ==
    /\ a.versions.items = b.versions.items
    /\ a.relatedObjects = b.relatedObjects
    /\ a.conditions = b.conditions

----------------------------------------------------------------------------
(* Condition list helpers (cluster-version-operator lib/resourcemerge) *)

RECURSIVE FindIndex(_, _, _)
FindIndex(conds, t, i) ==
    IF i > Len(conds) THEN 0
    ELSE IF conds[i].type = t THEN i
    ELSE FindIndex(conds, t, i + 1)

\* SetOperatorStatusCondition(&conds, c) at time t: a condition of a new type
\* is appended with LastTransitionTime = time.Now(); an existing one takes
\* c's reason and message, and c's status with a new LastTransitionTime when
\* the status changes
SetOperatorStatusCondition(conds, c, t) ==
    LET i == FindIndex(conds, c.type, 1) IN
    IF i = 0 THEN Append(conds, [c EXCEPT !.lastTransitionTime = t])
    ELSE [conds EXCEPT
            ![i].status = c.status,
            ![i].lastTransitionTime =
                IF conds[i].status # c.status THEN t ELSE @,
            ![i].reason = c.reason,
            ![i].message = c.message]

\* for _, c := range new { SetOperatorStatusCondition(&conds, c) }
RECURSIVE SetAll(_, _, _)
SetAll(conds, new, t) ==
    IF new = <<>> THEN conds
    ELSE SetAll(SetOperatorStatusCondition(conds, Head(new), t), Tail(new), t)

\* the first condition of type t is there and has status "True"
IsOperatorStatusConditionTrue(conds, t) ==
    LET i == FindIndex(conds, t, 1) IN i # 0 /\ conds[i].status = "True"

\* the first condition of type t is there and has status "False"
IsOperatorStatusConditionFalse(conds, t) ==
    LET i == FindIndex(conds, t, 1) IN i # 0 /\ conds[i].status = "False"

----------------------------------------------------------------------------
(* The API client: Get, Create, UpdateStatus on one named record.          *)
(* fail = TRUE is a call the server answers with an error.                 *)

ClientGet(rec, fail) ==
    IF fail THEN [obj |-> Absent, err |-> ErrServer]
    ELSE IF ~rec.exists THEN [obj |-> Absent, err |-> ErrNotFound]
    ELSE [obj |-> rec, err |-> NoErr]

ClientCreate(rec, obj, fail) ==
    IF fail \/ rec.exists THEN [obj |-> Absent, err |-> ErrServer, store |-> rec]
    ELSE [obj |-> obj, err |-> NoErr, store |-> obj]

ClientUpdateStatus(rec, obj, fail) ==
    IF fail \/ ~rec.exists THEN [err |-> ErrServer, store |-> rec]
    ELSE [err |-> NoErr, store |-> [rec EXCEPT !.status = obj.status]]

----------------------------------------------------------------------------
(* StatusReporter methods.  A method returns at the first API call that   *)
(* fails, so f names the one call on the own record that fails if it is   *)
(* made: "Get", "Create", "UpdateStatus", or "none".                      *)


\* a slip in GetOrCreateClusterOperator: any error of Get leads to Create
GetOrCreateClusterOperator_CreatesOnAnyError(rec, f) ==
    LET existing == ClientGet(rec, f = "Get") IN
    IF existing.err # NoErr
    THEN LET created == ClientCreate(rec, NewClusterOperator, f = "Create") IN
         [co |-> created.obj, err |-> created.err, store |-> created.store,
          calls |-> <<"Get", "Create">>]
    ELSE [co |-> existing.obj, err |-> existing.err, store |-> rec,
          calls |-> <<"Get">>]

\* GetOrCreateClusterOperator() (*ClusterOperator, error)
GetOrCreateClusterOperator(rec, f) ==
    LET existing == ClientGet(rec, f = "Get") IN
    IF existing.err = ErrNotFound
    THEN LET created == ClientCreate(rec, NewClusterOperator, f = "Create") IN
         [co |-> created.obj, err |-> created.err, store |-> created.store,
          calls |-> <<"Get", "Create">>]
    ELSE [co |-> existing.obj, err |-> existing.err, store |-> rec,
          calls |-> <<"Get">>]

\* a slip in IsDifferentVersions: the comparison is lost
IsDifferentVersions_NeverDiffers(rec, desiredVersions, f) ==
    LET got == GetOrCreateClusterOperator(rec, f) IN
    [differs |-> FALSE, err |-> got.err, store |-> got.store, calls |-> got.calls]

\* IsDifferentVersions(desiredVersions) (bool, error)
IsDifferentVersions(rec, desiredVersions, f) ==
    LET got == GetOrCreateClusterOperator(rec, f) IN
    IF got.err # NoErr
    THEN [differs |-> FALSE, err |-> got.err, store |-> got.store, calls |-> got.calls]
    ELSE [differs |-> ~ReflectDeepEqual(desiredVersions, got.co.status.versions),
          err |-> NoErr, store |-> got.store, calls |-> got.calls]

\* a slip in ApplyConditions: the version entry is named like the one Report
\* waits for
CandidateStatus_WritesOperatorVersion(relObjs, conds, t) ==
    [versions |-> Slice(<<OperandVersion("operator", Raw)>>),
     relatedObjects |-> relObjs,
     conditions |-> SetAll(<<>>, conds, t)]

\* a slip in ApplyConditions: RelatedObjects is left out of the status
CandidateStatus_WithoutRelatedObjects(relObjs, conds, t) ==
    [versions |-> Slice(<<OperandVersion("cluster-autoscaler", Raw)>>),
     relatedObjects |-> <<>>,
     conditions |-> SetAll(<<>>, conds, t)]

\* the status ApplyConditions builds from the reporter's fields and conds
\* at time t
CandidateStatus(relObjs, conds, t) ==
    [versions |-> Slice(<<OperandVersion("cluster-autoscaler", Raw)>>),
     relatedObjects |-> relObjs,
     conditions |-> SetAll(<<>>, conds, t)]


\* a slip in ApplyConditions: the conditions are set on the fetched record's
\* conditions and not on an empty status
ApplyConditions_MergesIntoStored(rec, relObjs, conds, t, f) ==
    LET got == GetOrCreateClusterOperator(rec, f)
        status == [CandidateStatus(relObjs, conds, t) EXCEPT
                      !.conditions = SetAll(got.co.status.conditions, conds, t)]
    IN  IF got.err # NoErr
        THEN [err |-> got.err, store |-> got.store, calls |-> got.calls,
              conds |-> conds, status |-> status, fetched |-> got.co.status]
        ELSE IF ~SemanticDeepEqual(got.co.status, status)
        THEN LET upd == ClientUpdateStatus(got.store,
                            [got.co EXCEPT !.status = status],
                            f = "UpdateStatus")
             IN [err |-> upd.err, store |-> upd.store,
                 calls |-> got.calls \o <<"UpdateStatus">>,
                 conds |-> conds, status |-> status, fetched |-> got.co.status]
        ELSE [err |-> NoErr, store |-> got.store, calls |-> got.calls,
              conds |-> conds, status |-> status, fetched |-> got.co.status]

\* a slip in ApplyConditions: only the conditions are compared
ApplyConditions_ComparesConditionsOnly(rec, relObjs, conds, t, f) ==
    LET status == CandidateStatus(relObjs, conds, t)
        got == GetOrCreateClusterOperator(rec, f)
    IN  IF got.err # NoErr
        THEN [err |-> got.err, store |-> got.store, calls |-> got.calls,
              conds |-> conds, status |-> status, fetched |-> got.co.status]
        ELSE IF got.co.status.conditions # status.conditions
        THEN LET upd == ClientUpdateStatus(got.store,
                            [got.co EXCEPT !.status = status],
                            f = "UpdateStatus")
             IN [err |-> upd.err, store |-> upd.store,
                 calls |-> got.calls \o <<"UpdateStatus">>,
                 conds |-> conds, status |-> status, fetched |-> got.co.status]
        ELSE [err |-> NoErr, store |-> got.store, calls |-> got.calls,
              conds |-> conds, status |-> status, fetched |-> got.co.status]

\* a slip in ApplyConditions: the status is written whether it changed or not
ApplyConditions_AlwaysUpdates(rec, relObjs, conds, t, f) ==
    LET status == CandidateStatus(relObjs, conds, t)
        got == GetOrCreateClusterOperator(rec, f)
    IN  IF got.err # NoErr
        THEN [err |-> got.err, store |-> got.store, calls |-> got.calls,
              conds |-> conds, status |-> status, fetched |-> got.co.status]
        ELSE LET upd == ClientUpdateStatus(got.store,
                            [got.co EXCEPT !.status = status],
                            f = "UpdateStatus")
             IN [err |-> upd.err, store |-> upd.store,
                 calls |-> got.calls \o <<"UpdateStatus">>,
                 conds |-> conds, status |-> status, fetched |-> got.co.status]

\* a slip in ApplyConditions: the error of UpdateStatus is dropped
ApplyConditions_DropsUpdateError(rec, relObjs, conds, t, f) ==
    LET status == CandidateStatus(relObjs, conds, t)
        got == GetOrCreateClusterOperator(rec, f)
    IN  IF got.err # NoErr
        THEN [err |-> got.err, store |-> got.store, calls |-> got.calls,
              conds |-> conds, status |-> status, fetched |-> got.co.status]
        ELSE IF ~SemanticDeepEqual(got.co.status, status)
        THEN LET upd == ClientUpdateStatus(got.store,
                            [got.co EXCEPT !.status = status],
                            f = "UpdateStatus")
             IN [err |-> NoErr, store |-> upd.store,
                 calls |-> got.calls \o <<"UpdateStatus">>,
                 conds |-> conds, status |-> status, fetched |-> got.co.status]
        ELSE [err |-> NoErr, store |-> got.store, calls |-> got.calls,
              conds |-> conds, status |-> status, fetched |-> got.co.status]

\* ApplyConditions(conds) error
ApplyConditions(rec, relObjs, conds, t, f) ==
    LET status == CandidateStatus(relObjs, conds, t)
        got == GetOrCreateClusterOperator(rec, f)
    IN  IF got.err # NoErr
        THEN [err |-> got.err, store |-> got.store, calls |-> got.calls,
              conds |-> conds, status |-> status, fetched |-> got.co.status]
        ELSE IF ~SemanticDeepEqual(got.co.status, status)
        THEN LET upd == ClientUpdateStatus(got.store,
                            [got.co EXCEPT !.status = status],
                            f = "UpdateStatus")
             IN [err |-> upd.err, store |-> upd.store,
                 calls |-> got.calls \o <<"UpdateStatus">>,
                 conds |-> conds, status |-> status, fetched |-> got.co.status]
        ELSE [err |-> NoErr, store |-> got.store, calls |-> got.calls,
              conds |-> conds, status |-> status, fetched |-> got.co.status]


\* a slip in Available: the Failing condition is reported True
AvailableConditions_FailingTrue(reason, message) ==
    << Condition("Available", "True", reason, message),
       Condition("Progressing", "False", "", ""),
       Condition("Failing", "True", "", "") >>

AvailableConditions(reason, message) ==
    << Condition("Available", "True", reason, message),
       Condition("Progressing", "False", "", ""),
       Condition("Failing", "False", "", "") >>

FailConditions(reason, message) ==
    << Condition("Available", "True", "", ""),
       Condition("Progressing", "False", "", ""),
       Condition("Failing", "True", reason, message) >>

ProgressingConditions(reason, message) ==
    << Condition("Available", "True", "", ""),
       Condition("Progressing", "True", reason, message),
       Condition("Failing", "False", "", "") >>

\* Available(reason, message) error
Available(rec, relObjs, reason, message, t, f) ==
    ApplyConditions(rec, relObjs, AvailableConditions(reason, message), t, f)


\* a slip in Fail: the reason and message go to the Progressing condition
Fail_SetsProgressing(rec, relObjs, reason, message, t, f) ==
    ApplyConditions(rec, relObjs,
        << Condition("Available", "True", "", ""),
           Condition("Progressing", "True", reason, message),
           Condition("Failing", "False", "", "") >>, t, f)

\* Fail(reason, message) error
\* a slip in Fail: the conditions are applied twice
Fail_AppliesTwice(rec, relObjs, reason, message, t, f) ==
    LET once == ApplyConditions(rec, relObjs, FailConditions(reason, message), t, f)
        twice == ApplyConditions(once.store, relObjs,
                                 FailConditions(reason, message), t, f)
    IN  [twice EXCEPT !.calls = once.calls \o twice.calls]

Fail(rec, relObjs, reason, message, t, f) ==
    ApplyConditions(rec, relObjs, FailConditions(reason, message), t, f)

\* Progressing(reason, message) error
Progressing(rec, relObjs, reason, message, t, f) ==
    ApplyConditions(rec, relObjs, ProgressingConditions(reason, message), t, f)


\* a slip in CheckMachineAPI: the Failing condition is not looked at
CheckMachineAPI_IgnoresFailing(maoRec, fail) ==
    LET got == ClientGet(maoRec, fail) IN
    IF got.err # NoErr THEN [ok |-> FALSE, err |-> got.err]
    ELSE IF IsOperatorStatusConditionTrue(got.obj.status.conditions, "Available")
    THEN [ok |-> TRUE, err |-> NoErr]
    ELSE [ok |-> FALSE, err |-> NoErr]

\* CheckMachineAPI() (bool, error); fail: the Get of "machine-api" fails
CheckMachineAPI(maoRec, fail) ==
    LET got == ClientGet(maoRec, fail) IN
    IF got.err # NoErr THEN [ok |-> FALSE, err |-> got.err]
    ELSE IF /\ IsOperatorStatusConditionTrue(got.obj.status.conditions, "Available")
            /\ IsOperatorStatusConditionFalse(got.obj.status.conditions, "Failing")
    THEN [ok |-> TRUE, err |-> NoErr]
    ELSE [ok |-> FALSE, err |-> NoErr]

\* a slip in printOperandVersions: the entries are joined by "," alone
RECURSIVE printOperandVersions_JoinsWithComma(_)
printOperandVersions_JoinsWithComma(desiredVersions) ==
    IF desiredVersions = <<>> THEN ""
    ELSE LET h == Head(desiredVersions)
             one == h.name \o ": " \o h.version
         IN  IF Len(desiredVersions) = 1 THEN one
             ELSE one \o "," \o
                    printOperandVersions_JoinsWithComma(Tail(desiredVersions))

\* printOperandVersions: "name: version" of every entry, joined by ", "
RECURSIVE printOperandVersions(_)
printOperandVersions(desiredVersions) ==
    IF desiredVersions = <<>> THEN ""
    ELSE LET h == Head(desiredVersions)
             one == h.name \o ": " \o h.version
         IN  IF Len(desiredVersions) = 1 THEN one
             ELSE one \o ", " \o printOperandVersions(Tail(desiredVersions))

\* desiredVersions of Report's poll function
DesiredVersions == Slice(<<OperandVersion("operator", Raw)>>)

\* IsDifferentVersions was not called in this tick
NotCalled == [called |-> FALSE, differs |-> FALSE, err |-> NoErr, calls |-> <<>>]

Called(idv) == [called |-> TRUE, differs |-> idv.differs, err |-> idv.err,
                calls |-> idv.calls]


\* a slip in the poll function: the error of the status method is returned
TickResult_ReturnsApplyError(done, branch, chk, idv, applied) ==
    [done |-> done, err |-> applied.err, branch |-> branch, chk |-> chk,
     idv |-> idv, conds |-> applied.conds, applyErr |-> applied.err,
     applyCalls |-> applied.calls, store |-> applied.store]

\* what a tick hands back: the poll function's (done, err), the store it
\* leaves, and what it did on the way: the branch taken, the results of
\* CheckMachineAPI and IsDifferentVersions, the conditions handed to the
\* status method, that method's (discarded) error and its API calls
TickResult(done, branch, chk, idv, applied) ==
    [done |-> done, err |-> NoErr, branch |-> branch, chk |-> chk, idv |-> idv,
     conds |-> applied.conds, applyErr |-> applied.err,
     applyCalls |-> applied.calls, store |-> applied.store]

\* a slip in the poll function: a record that already says Available is
\* reported Available again without looking at the dependency
pollFunc_TrustsStoredAvailable(rec, maoRec, relObjs, t, f) ==
    LET chk == CheckMachineAPI(maoRec, f.mao) IN
    IF /\ rec.exists
       /\ IsOperatorStatusConditionTrue(rec.status.conditions, "Available")
       /\ IsOperatorStatusConditionFalse(rec.status.conditions, "Progressing")
       /\ IsOperatorStatusConditionFalse(rec.status.conditions, "Failing")
    THEN TickResult(TRUE, "available", chk, NotCalled,
            Available(rec, relObjs, ReasonEmpty, "", t, f.ap))
    ELSE IF chk.err # NoErr
    THEN TickResult(FALSE, "dependency-error", chk, NotCalled,
            Fail(rec, relObjs, ReasonMissingDependency,
                 "error checking machine-api operator status " \o chk.err, t, f.ap))
    ELSE IF chk.ok
    THEN LET idv == IsDifferentVersions(rec, DesiredVersions, f.idv) IN
         IF idv.err # NoErr
         THEN TickResult(FALSE, "version-error", chk, Called(idv),
                 Fail(idv.store, relObjs, ReasonEmpty,
                      "error checking cluster-autoscaler-operator version "
                          \o idv.err, t, f.ap))
         ELSE IF idv.differs
         THEN TickResult(FALSE, "progressing", chk, Called(idv),
                 Progressing(idv.store, relObjs, ReasonSyncing,
                      "Syncing to version "
                          \o printOperandVersions(DesiredVersions.items), t, f.ap))
         ELSE TickResult(TRUE, "available", chk, Called(idv),
                 Available(idv.store, relObjs, ReasonEmpty, "", t, f.ap))
    ELSE TickResult(FALSE, "dependency-not-ready", chk, NotCalled,
            Fail(rec, relObjs, ReasonMissingDependency,
                 "machine-api operator not ready", t, f.ap))

\* pollFunc of Report at time t.  f.mao: the machine-api Get fails; f.idv:
\* the failing call of IsDifferentVersions; f.ap: the failing call of the
\* status method the tick invokes
pollFunc(rec, maoRec, relObjs, t, f) ==
    LET chk == CheckMachineAPI(maoRec, f.mao) IN
    IF chk.err # NoErr
    THEN TickResult(FALSE, "dependency-error", chk, NotCalled,
            Fail(rec, relObjs, ReasonMissingDependency,
                 "error checking machine-api operator status " \o chk.err, t, f.ap))
    ELSE IF chk.ok
    THEN LET idv == IsDifferentVersions(rec, DesiredVersions, f.idv) IN
         IF idv.err # NoErr
         THEN TickResult(FALSE, "version-error", chk, Called(idv),
                 Fail(idv.store, relObjs, ReasonEmpty,
                      "error checking cluster-autoscaler-operator version "
                          \o idv.err, t, f.ap))
         ELSE IF idv.differs
         THEN TickResult(FALSE, "progressing", chk, Called(idv),
                 Progressing(idv.store, relObjs, ReasonSyncing,
                      "Syncing to version "
                          \o printOperandVersions(DesiredVersions.items), t, f.ap))
         ELSE TickResult(TRUE, "available", chk, Called(idv),
                 Available(idv.store, relObjs, ReasonEmpty, "", t, f.ap))
    ELSE TickResult(FALSE, "dependency-not-ready", chk, NotCalled,
            Fail(rec, relObjs, ReasonMissingDependency,
                 "machine-api operator not ready", t, f.ap))

\* wait.PollImmediateUntil after a call of the poll function: an error ends
\* the poll with that error, done ends it with nil, otherwise it goes on to
\* waiting: "started" after the immediate call, "polling" after a later one
AfterTick(r, waiting) ==
    IF r.err # NoErr THEN [pc |-> "error", ret |-> r.err]
    ELSE IF r.done THEN [pc |-> "success", ret |-> NoErr]
    ELSE [pc |-> waiting, ret |-> "none"]

----------------------------------------------------------------------------
(* Input sets *)

SeqsUpTo(S, n) == UNION {[1..k -> S] : k \in 0..n}

VersionItems == {OperandVersion("operator", Raw),
                 OperandVersion("cluster-autoscaler", Raw),
                 OperandVersion("operator", "v0")}

\* version lists a stored record can hold: decoded from the API an empty
\* list is nil
StoredVersionLists ==
    {NilSlice} \cup {Slice(s) : s \in SeqsUpTo(VersionItems, MaxVersions) \ {<<>>}}

\* version lists a caller can pass: nil, empty, or any list
DesiredVersionLists == StoredVersionLists \cup {Slice(<<>>)}

RelatedObjectLists == {<<>>, <<"namespaces/openshift-cluster-autoscaler">>}

\* (reason, message) pairs handed to Available, Fail and Progressing
ReasonsAndMessages ==
    { <<ReasonEmpty, "">>,
      <<ReasonMissingDependency, "machine-api operator not ready">>,
      <<ReasonSyncing, "">> }

\* condition lists handed to ApplyConditions: those of Available and Fail,
\* no condition, one condition, the same type twice
ConditionLists ==
    { AvailableConditions(ReasonEmpty, ""),
      FailConditions(ReasonMissingDependency, "machine-api operator not ready"),
      <<>>,
      <<Condition("Available", "True", "", "")>>,
      <<Condition("Failing", "True", "", ""),
        Condition("Failing", "False", ReasonSyncing, "")>> }

\* statuses found in the own record: left by an earlier run of the operator
\* or written by somebody else
SampleVersions == {NilSlice,
                   Slice(<<OperandVersion("operator", Raw)>>),
                   Slice(<<OperandVersion("cluster-autoscaler", Raw)>>)}

\* conditions found in the own record: none, the Available set, and what
\* another writer left: a type this reporter does not know and a stale
\* Failing=True
SampleConditions == {<<>>,
                     AvailableConditions(ReasonEmpty, ""),
                     <<Condition("Upgradeable", "True", "", ""),
                       Condition("Failing", "True", "", "")>>}

StoredStatuses ==
    [versions : SampleVersions, relatedObjects : RelatedObjectLists,
     conditions : SampleConditions]

StoredRecords == {Absent} \cup {[exists |-> TRUE, status |-> s] : s \in StoredStatuses}

\* the own record with every stored version list, for the version comparison
VersionRecords ==
    {Absent} \cup {[exists |-> TRUE, status |-> [EmptyStatus EXCEPT !.versions = v]] :
                      v \in StoredVersionLists}

CondTypes == {"Available", "Progressing", "Failing"}
CondStatuses == {"True", "False", "Unknown"}

\* no two conditions of a list have the same type
DistinctTypes(conds) ==
    \A i, j \in 1..Len(conds) : i # j => conds[i].type # conds[j].type

MaoConditionLists ==
    {c \in SeqsUpTo({Condition(t, s, "", "") : t \in CondTypes, s \in CondStatuses},
                    MaxMaoConds) : DistinctTypes(c)}

MaoRecord(conds) == [exists |-> TRUE, status |-> [EmptyStatus EXCEPT !.conditions = conds]]

\* the machine-api record with every condition list
MaoRecords == {Absent} \cup {MaoRecord(c) : c \in MaoConditionLists}

\* the machine-api record as Report meets it: absent, ready, failing, without
\* conditions
MaoSamples ==
    {Absent,
     MaoRecord(<<Condition("Available", "True", "", ""),
                 Condition("Failing", "False", "", "")>>),
     MaoRecord(<<Condition("Available", "True", "", ""),
                 Condition("Failing", "True", "", "")>>),
     MaoRecord(<<>>)}

GetFails == {"none", "Get", "Create"}
ApplyFails == GetFails \cup {"UpdateStatus"}
TickFails == [mao : BOOLEAN, idv : GetFails, ap : ApplyFails]

----------------------------------------------------------------------------
(* Report: the poll loop.  wait.PollImmediateUntil calls the poll function  *)
(* at once; if that call is neither done nor failed it looks at stopCh and  *)
(* either returns ErrWaitTimeout or starts PollUntil, which calls the poll  *)
(* function once per interval until it is done or fails, and returns        *)
(* ErrWaitTimeout when it receives the close of stopCh.  The timer and the  *)
(* close of stopCh race: a tick may still run after stopCh is closed.       *)

TypeOK ==
    /\ co.exists \in BOOLEAN
    /\ mao.exists \in BOOLEAN
    /\ relatedObjects \in RelatedObjectLists
    /\ stopCh \in BOOLEAN
    /\ now \in 1..MaxClock
    /\ pc \in {"idle", "started", "polling", "success", "cancelled", "error"}
    /\ ret \in {"none", NoErr, ErrNotFound, ErrServer, ErrWaitTimeout}
    /\ tock \in BOOLEAN

Init ==
    /\ co \in StoredRecords
    /\ mao \in MaoSamples
    /\ relatedObjects \in RelatedObjectLists
    /\ stopCh = FALSE
    /\ now = 1
    /\ pc = "idle"
    /\ ret = "none"
    /\ tock = FALSE
    /\ last = [op |-> "none"]

\* one call of the poll function and what PollImmediateUntil makes of it
RunTick(f, waiting) ==
    LET r == pollFunc(co, mao, relatedObjects, now, f)
        next == AfterTick(r, waiting)
    IN  /\ tock' = ~tock
        /\ co' = r.store
        /\ pc' = next.pc
        /\ ret' = next.ret
        /\ last' = [op |-> "tick", at |-> now, pre |-> co, out |-> r]
        /\ UNCHANGED <<mao, relatedObjects, stopCh, now>>

\* a slip in Report: stopCh is looked at before the first tick
Report_ChecksStopFirst ==
    /\ pc = "idle"
    /\ IF stopCh
       THEN /\ pc' = "cancelled"
            /\ ret' = ErrWaitTimeout
            /\ last' = [op |-> "cancel"]
            /\ UNCHANGED <<co, mao, relatedObjects, stopCh, now, tock>>
       ELSE \E f \in TickFails : RunTick(f, "started")

\* Report(stopCh) is called: the first tick runs immediately
Report ==
    /\ pc = "idle"
    /\ \E f \in TickFails : RunTick(f, "started")

\* after the first tick stopCh is open: PollUntil starts the timer
PollUntil ==
    /\ pc = "started"
    /\ ~stopCh
    /\ pc' = "polling"
    /\ UNCHANGED <<co, mao, relatedObjects, stopCh, now, ret, tock, last>>

\* the timer fired: the next tick
Tick ==
    /\ pc = "polling"
    /\ \E f \in TickFails : RunTick(f, "polling")

\* stopCh is found closed after the first tick, or its close is received
\* during the poll: Report returns what the poll returns
Cancel ==
    /\ pc \in {"started", "polling"}
    /\ stopCh
    /\ pc' = "cancelled"
    /\ ret' = ErrWaitTimeout
    /\ last' = [op |-> "cancel"]
    /\ UNCHANGED <<co, mao, relatedObjects, stopCh, now, tock>>

\* the caller closes stopCh
Stop ==
    /\ ~stopCh
    /\ stopCh' = TRUE
    /\ last' = [op |-> "stop"]
    /\ UNCHANGED <<co, mao, relatedObjects, now, pc, ret, tock>>

\* somebody else writes or deletes the own record
ExternalWrite ==
    /\ \E r \in StoredRecords \ {co} : co' = r
    /\ last' = [op |-> "foreign"]
    /\ UNCHANGED <<mao, relatedObjects, stopCh, now, pc, ret, tock>>

\* the machine-api operator reports another status, or its record goes
MaoChange ==
    /\ \E m \in MaoSamples \ {mao} : mao' = m
    /\ last' = [op |-> "mao"]
    /\ UNCHANGED <<co, relatedObjects, stopCh, now, pc, ret, tock>>

\* the clock moves on
TimePasses ==
    /\ now < MaxClock
    /\ now' = now + 1
    /\ UNCHANGED <<co, mao, relatedObjects, stopCh, pc, ret, tock, last>>

Next ==
    \/ Report
    \/ PollUntil
    \/ Tick
    \/ Cancel
    \/ Stop
    \/ ExternalWrite
    \/ MaoChange
    \/ TimePasses

Spec == Init /\ [][Next]_vars

\* Report or Tick seen from tock alone: one of them is enabled when Report
\* has been called or is polling, and the steps of Next that flip tock are
\* their steps; with stopCh open nothing but the timer ends the wait
PollFuncCalled ==
    /\ pc = "idle" \/ (pc = "polling" /\ ~stopCh)
    /\ tock' = ~tock

\* Report is called, PollUntil is started, its timer keeps firing, and a
\* closed stopCh is received
FairSpec ==
    Spec /\ WF_tock(PollFuncCalled) /\ WF_vars(PollUntil) /\ WF_vars(Cancel)

----------------------------------------------------------------------------
(* The exported status methods, called one at a time *)

OpsInit ==
    /\ co \in StoredRecords
    /\ mao = Absent
    /\ relatedObjects \in RelatedObjectLists
    /\ stopCh = FALSE
    /\ now = 1
    /\ pc = "idle"
    /\ ret = "none"
    /\ tock = FALSE
    /\ last = [op |-> "none"]

ApplyOps == {"ApplyConditions", "Available", "Fail", "Progressing"}

\* the call before, when that call applied the same conditions and nobody
\* wrote the record since: its error and its time
Again(in) ==
    IF last.op \in ApplyOps /\ last.in = in
    THEN [is |-> TRUE, err |-> last.out.err, at |-> last.at]
    ELSE [is |-> FALSE]

\* a method called with input in and failing calls f returned r
Returned(op, in, f, r) ==
    /\ co' = r.store
    /\ last' = [op |-> op, in |-> in, f |-> f, at |-> now, pre |-> co,
                out |-> r,
                again |-> IF op \in ApplyOps THEN Again(in) ELSE [is |-> FALSE]]
    /\ UNCHANGED <<mao, relatedObjects, stopCh, now, pc, ret, tock>>

CallGetOrCreateClusterOperator ==
    \E f \in GetFails :
        Returned("GetOrCreateClusterOperator", <<>>, f,
                 GetOrCreateClusterOperator(co, f))

CallApplyConditions ==
    \E conds \in ConditionLists, f \in ApplyFails :
        Returned("ApplyConditions", conds, f,
                 ApplyConditions(co, relatedObjects, conds, now, f))

CallAvailable ==
    \E in \in ReasonsAndMessages, f \in ApplyFails :
        Returned("Available", AvailableConditions(in[1], in[2]), f,
                 Available(co, relatedObjects, in[1], in[2], now, f))

CallFail ==
    \E in \in ReasonsAndMessages, f \in ApplyFails :
        Returned("Fail", FailConditions(in[1], in[2]), f,
                 Fail(co, relatedObjects, in[1], in[2], now, f))

CallProgressing ==
    \E in \in ReasonsAndMessages, f \in ApplyFails :
        Returned("Progressing", ProgressingConditions(in[1], in[2]), f,
                 Progressing(co, relatedObjects, in[1], in[2], now, f))

OpsNext ==
    \/ CallGetOrCreateClusterOperator
    \/ CallApplyConditions
    \/ CallAvailable
    \/ CallFail
    \/ CallProgressing
    \/ ExternalWrite
    \/ TimePasses

OpsSpec == OpsInit /\ [][OpsNext]_vars

----------------------------------------------------------------------------
(* IsDifferentVersions on every pair of version lists *)

VersionsInit ==
    /\ co \in VersionRecords
    /\ mao = Absent
    /\ relatedObjects = <<>>
    /\ stopCh = FALSE
    /\ now = 1
    /\ pc = "idle"
    /\ ret = "none"
    /\ tock = FALSE
    /\ last = [op |-> "none"]

CallIsDifferentVersions ==
    \E desired \in DesiredVersionLists, f \in GetFails :
        Returned("IsDifferentVersions", desired, f,
                 IsDifferentVersions(co, desired, f))

VersionsNext == CallIsDifferentVersions

VersionsSpec == VersionsInit /\ [][VersionsNext]_vars

----------------------------------------------------------------------------
(* CheckMachineAPI on every machine-api record *)

MaoInit ==
    /\ co = Absent
    /\ mao \in MaoRecords
    /\ relatedObjects = <<>>
    /\ stopCh = FALSE
    /\ now = 1
    /\ pc = "idle"
    /\ ret = "none"
    /\ tock = FALSE
    /\ last = [op |-> "none"]

CallCheckMachineAPI ==
    /\ \E fail \in BOOLEAN :
          last' = [op |-> "CheckMachineAPI", fail |-> fail, pre |-> mao,
                   out |-> CheckMachineAPI(mao, fail)]
    /\ UNCHANGED <<co, mao, relatedObjects, stopCh, now, pc, ret, tock>>

MaoNext == CallCheckMachineAPI

MaoSpec == MaoInit /\ [][MaoNext]_vars

----------------------------------------------------------------------------
(* Properties of Report *)

ReportReturned == pc \in {"success", "cancelled", "error"}

\* the machine-api record is there, Available=True and Failing=False
MaoReady ==
    /\ mao.exists
    /\ \E i \in 1..Len(mao.status.conditions) :
          /\ mao.status.conditions[i].type = "Available"
          /\ mao.status.conditions[i].status = "True"
    /\ \E i \in 1..Len(mao.status.conditions) :
          /\ mao.status.conditions[i].type = "Failing"
          /\ mao.status.conditions[i].status = "False"

\* no API call of the last tick failed
TickCallsSucceeded ==
    last.op = "tick" =>
        /\ last.out.chk.err # ErrServer
        /\ last.out.idv.err = NoErr
        /\ last.out.applyErr = NoErr

\* type, status, reason and message of each condition of a list
Untimed(conds) ==
    [i \in 1..Len(conds) |->
        [type |-> conds[i].type, status |-> conds[i].status,
         reason |-> conds[i].reason, message |-> conds[i].message]]

\* the condition set of the Available state
AvailableSet ==
    << [type |-> "Available", status |-> "True", reason |-> "", message |-> ""],
       [type |-> "Progressing", status |-> "False", reason |-> "", message |-> ""],
       [type |-> "Failing", status |-> "False", reason |-> "", message |-> ""] >>

\* C1: when the reporter is the only writer of its record, every store call
\* succeeds, stopCh stays open and the machine-api operator is ready from
\* some point on, Report eventually applies the Available set and returns
\* success.
C1_ReportReachesAvailable ==
    ( /\ [](last.op # "foreign")
      /\ []TickCallsSucceeded
      /\ [](~stopCh)
      /\ <>[]MaoReady )
    => <>(/\ pc = "success"
          /\ ret = NoErr
          /\ last.op = "tick"
          /\ Untimed(last.out.conds) = AvailableSet)

\* the version list the last call compared with the desired one: that of the
\* record it fetched, or created empty
ObservedVersions ==
    IF last.pre.exists THEN last.pre.status.versions ELSE NilSlice

\* the last tick found the dependency healthy and the observed version list
\* equal to the desired one
HealthyAndInSync ==
    /\ last.out.chk.err = NoErr
    /\ last.out.chk.ok
    /\ last.out.idv.called
    /\ last.out.idv.err = NoErr
    /\ ObservedVersions = Slice(<<[name |-> "operator", version |-> Raw]>>)

\* C2: a tick that finds the dependency healthy and the observed versions
\* equal to the desired ones applies exactly {Available=True with empty
\* reason, Progressing=False, Failing=False}, is the last tick, and Report
\* returns nil; any other tick is not done and Report does not return
\* success.
C2_AvailableTickEndsPoll ==
    last.op = "tick" =>
        IF HealthyAndInSync
        THEN /\ Untimed(last.out.conds) = AvailableSet
             /\ last.out.done
             /\ pc = "success"
             /\ ret = NoErr
        ELSE /\ ~last.out.done
             /\ pc # "success"

C2_Witness ==
    /\ last.op = "tick"
    /\ HealthyAndInSync
    /\ pc = "success"

\* C3: a tick whose dependency check fails (the machine-api record is
\* absent or its Get fails) synthesizes Failing=True with reason
\* MissingDependency and the error text in the message, Available=True,
\* Progressing=False; the poll function returns (false, nil) and Report
\* keeps polling.  Report never returns an error of the dependency check or
\* of the store.
C3_DependencyErrorKeepsPolling ==
    /\ ret \notin {ErrNotFound, ErrServer}
    /\ (last.op = "tick" /\ ~mao.exists) => last.out.chk.err # NoErr
    /\ (last.op = "tick" /\ last.out.chk.err # NoErr) =>
          /\ Untimed(last.out.conds) =
                << [type |-> "Available", status |-> "True",
                    reason |-> "", message |-> ""],
                   [type |-> "Progressing", status |-> "False",
                    reason |-> "", message |-> ""],
                   [type |-> "Failing", status |-> "True",
                    reason |-> "MissingDependency",
                    message |-> "error checking machine-api operator status "
                                    \o last.out.chk.err] >>
          /\ ~last.out.done
          /\ last.out.err = NoErr
          /\ pc \in {"started", "polling"}
          /\ ret = "none"

C3_Witness ==
    /\ last.op = "tick"
    /\ last.out.chk.err = ErrNotFound
    /\ last.out.applyErr = ErrServer
    /\ pc = "polling"
    /\ ~stopCh

\* C4: once stopCh is closed Report returns, and it returns nil, whether or
\* not the Available state was reached.
C4_StopEndsReportWithoutError ==
    /\ stopCh ~> ReportReturned
    /\ []((stopCh /\ ReportReturned) => ret = NoErr)

----------------------------------------------------------------------------
(* Properties of the status methods *)

UpdateCalled(calls) == \E i \in 1..Len(calls) : calls[i] = "UpdateStatus"

CreateCalled(calls) == \E i \in 1..Len(calls) : calls[i] = "Create"

\* the last call was a status method and its fetch (or create) succeeded
FetchOK ==
    /\ last.f # "Get"
    /\ last.pre.exists \/ last.f # "Create"

\* the status of the record that call fetched, or created empty
FetchedStatus == IF last.pre.exists THEN last.pre.status ELSE EmptyStatus

\* C5: ApplyConditions calls UpdateStatus exactly when the candidate status
\* (fixed versions, related objects, the given conditions) is not
\* semantically deep-equal to the status of the record it just fetched.
C5_UpdateOnlyWhenDifferent ==
    last.op \in ApplyOps =>
        ( UpdateCalled(last.out.calls)
          <=> ( /\ FetchOK
                /\ ~SemanticDeepEqual(FetchedStatus,
                        CandidateStatus(relatedObjects, last.in, last.at)) ) )

C5_Witness ==
    /\ last.op \in ApplyOps
    /\ FetchOK
    /\ SemanticDeepEqual(FetchedStatus, CandidateStatus(relatedObjects, last.in, last.at))
    /\ ~UpdateCalled(last.out.calls)
    /\ last.out.err = NoErr

\* C6: a second call with the same conditions, with no other writer in
\* between, never calls UpdateStatus and leaves the record as it is.
C6_SecondCallIsNoOp ==
    (last.op \in ApplyOps /\ last.again.is) =>
        /\ ~UpdateCalled(last.out.calls)
        /\ co = last.pre

\* C7: ApplyConditions returns the error of a failed fetch or create, and
\* then attempts no UpdateStatus; it returns the error of a failed
\* UpdateStatus; it returns nil exactly when the fetch or create succeeded
\* and no update was needed or the update succeeded.
C7_StoreErrorsAreReturned ==
    last.op \in ApplyOps =>
        LET updateFailed ==
                UpdateCalled(last.out.calls) /\ last.f = "UpdateStatus"
        IN  /\ ~FetchOK => /\ last.out.err = ErrServer
                           /\ ~UpdateCalled(last.out.calls)
                           /\ co = last.pre
            /\ updateFailed => last.out.err = ErrServer
            /\ (last.out.err = NoErr) <=> (FetchOK /\ ~updateFailed)

C7_Witness ==
    /\ last.op \in ApplyOps
    /\ UpdateCalled(last.out.calls)
    /\ last.f = "UpdateStatus"
    /\ last.out.err = ErrServer

\* C8: GetOrCreateClusterOperator returns the existing record without
\* creating when Get succeeds; creates an empty record and returns the result
\* of Create when Get says not-found; returns any other error of Get as it
\* is, without creating.  No method calls Create while the record exists.
C8_CreateOnlyWhenNotFound ==
    /\ last.op = "GetOrCreateClusterOperator" =>
          IF last.f = "Get"
          THEN /\ last.out.calls = <<"Get">>
               /\ last.out.err = ErrServer
               /\ co = last.pre
          ELSE IF last.pre.exists
          THEN /\ last.out.calls = <<"Get">>
               /\ last.out.err = NoErr
               /\ last.out.co = last.pre
               /\ co = last.pre
          ELSE /\ last.out.calls = <<"Get", "Create">>
               /\ IF last.f = "Create"
                  THEN last.out.err = ErrServer /\ co = last.pre
                  ELSE /\ last.out.err = NoErr
                       /\ last.out.co = [exists |-> TRUE, status |-> EmptyStatus]
                       /\ co = last.out.co
    /\ last.op \in ApplyOps \cup {"GetOrCreateClusterOperator"} =>
          (CreateCalled(last.out.calls) => ~last.pre.exists)

C8_Witness ==
    /\ last.op = "GetOrCreateClusterOperator"
    /\ last.out.calls = <<"Get", "Create">>
    /\ last.out.err = NoErr
    /\ co.exists

----------------------------------------------------------------------------
(* Properties of CheckMachineAPI *)

\* the conditions hold t with status s
HasCondition(conds, t, s) ==
    \E i \in 1..Len(conds) : conds[i].type = t /\ conds[i].status = s

\* C9: CheckMachineAPI returns (true, nil) exactly when the machine-api
\* record is fetched and holds Available=True and Failing=False; (false, nil)
\* when it is fetched and does not; an error when the fetch fails, also when
\* the record is not found.
C9_CheckMachineAPI ==
    last.op = "CheckMachineAPI" =>
        IF last.fail \/ ~mao.exists
        THEN last.out.err # NoErr /\ ~last.out.ok
        ELSE /\ last.out.err = NoErr
             /\ last.out.ok <=>
                   ( /\ HasCondition(mao.status.conditions, "Available", "True")
                     /\ HasCondition(mao.status.conditions, "Failing", "False") )

C9_Witness ==
    /\ last.op = "CheckMachineAPI"
    /\ last.out.ok
    /\ Len(mao.status.conditions) = 2

----------------------------------------------------------------------------
(* Properties of IsDifferentVersions *)

\* C10: IsDifferentVersions returns false for two version lists with the
\* same entries in the same order, two lists without entries included, and
\* true for any other pair.
C10_DiffersIffListsDiffer ==
    (last.op = "IsDifferentVersions" /\ last.out.err = NoErr) =>
        (last.out.differs <=> last.in.items # ObservedVersions.items)

----------------------------------------------------------------------------
(* Properties of the synthesized payload *)

\* Available, Fail and Progressing
StateOps == {"Available", "Fail", "Progressing"}

\* the last call wrote its status to the store
Written == UpdateCalled(last.out.calls) /\ last.out.err = NoErr

\* how many conditions of type t a list holds
CountOfType(conds, t) == Cardinality({i \in 1..Len(conds) : conds[i].type = t})

\* C11: the status that Available, Fail or Progressing synthesizes holds
\* exactly three conditions, one each of type Available, Progressing and
\* Failing, and when the call writes, these are the conditions of the stored
\* record, whatever conditions it held before.
C11_ThreeConditionsOnePerType ==
    last.op \in StateOps =>
        /\ Len(last.out.status.conditions) = 3
        /\ \A t \in CondTypes : CountOfType(last.out.status.conditions, t) = 1
        /\ Written => co.status.conditions = last.out.status.conditions

C11_Witness ==
    /\ last.op \in StateOps
    /\ Written
    /\ CountOfType(last.pre.status.conditions, "Upgradeable") = 1
    /\ CountOfType(co.status.conditions, "Upgradeable") = 0

----------------------------------------------------------------------------
(* Properties of the ticks of Report *)

\* the last tick found the dependency healthy and the observed version list
\* different from the desired one
HealthyAndOutOfSync ==
    /\ last.out.chk.err = NoErr
    /\ last.out.chk.ok
    /\ last.out.idv.called
    /\ last.out.idv.err = NoErr
    /\ ObservedVersions # Slice(<<[name |-> "operator", version |-> Raw]>>)

\* "name: version"
Rendered(operand) == operand.name \o ": " \o operand.version

\* the entries of a list rendered and joined by ", " in the order of the list
RECURSIVE Joined(_)
Joined(operands) ==
    IF Len(operands) = 0 THEN ""
    ELSE IF Len(operands) = 1 THEN Rendered(operands[1])
    ELSE Joined(SubSeq(operands, 1, Len(operands) - 1))
            \o ", " \o Rendered(operands[Len(operands)])

\* C12: a tick that finds the dependency healthy and the observed versions
\* different from the desired ones applies {Available=True, Progressing=True
\* with reason SyncingResources, Failing=False}; the Progressing message ends
\* with the desired operands, each rendered "name: version", joined by ", " in
\* input order, which is what printOperandVersions returns for every list;
\* the tick is not done and Report keeps polling.
C12_ProgressingTick ==
    (last.op = "tick" /\ HealthyAndOutOfSync) =>
        /\ Untimed(last.out.conds) =
              << [type |-> "Available", status |-> "True",
                  reason |-> "", message |-> ""],
                 [type |-> "Progressing", status |-> "True",
                  reason |-> "SyncingResources",
                  message |-> "Syncing to version operator: " \o Raw],
                 [type |-> "Failing", status |-> "False",
                  reason |-> "", message |-> ""] >>
        /\ \A operands \in SeqsUpTo(VersionItems, MaxVersions) :
              printOperandVersions(operands) = Joined(operands)
        /\ ~last.out.done
        /\ last.out.err = NoErr
        /\ pc \in {"started", "polling"}
        /\ ret = "none"

C12_Witness ==
    /\ last.op = "tick"
    /\ HealthyAndOutOfSync
    /\ last.out.branch = "progressing"
    /\ UpdateCalled(last.out.applyCalls)
    /\ pc = "polling"
    /\ printOperandVersions(<<[name |-> "operator", version |-> "v0"],
                              [name |-> "cluster-autoscaler", version |-> Raw]>>)
          = "operator: v0, cluster-autoscaler: v1"

\* C14: the first step of Report is a complete tick, whether stopCh is
\* closed or not, so Report never returns without a tick; Report returns on
\* cancellation only between ticks, and that step calls no poll function and
\* leaves the stored record as the last tick left it.
C14_FirstTickThenStopBetweenTicks ==
    /\ [][(pc = "idle" /\ pc' # "idle") =>
              /\ tock' # tock
              /\ last'.op = "tick"]_vars
    /\ [][(pc # "cancelled" /\ pc' = "cancelled") =>
              /\ pc \in {"started", "polling"}
              /\ stopCh
              /\ tock' = tock
              /\ co' = co]_vars

C14_Witness ==
    /\ pc = "started"
    /\ stopCh
    /\ last.op = "tick"
    /\ UpdateCalled(last.out.applyCalls)
    /\ co # last.pre

\* the last tick found the dependency healthy and IsDifferentVersions
\* returned an error
HealthyAndVersionError ==
    /\ last.out.chk.err = NoErr
    /\ last.out.chk.ok
    /\ last.out.idv.called
    /\ last.out.idv.err # NoErr

\* C15: a tick that finds the dependency healthy and whose version comparison
\* fails applies Failing=True with empty reason and the error text in the
\* message, Available=True, Progressing=False; the poll function returns
\* (false, nil) and Report keeps polling.
C15_VersionErrorKeepsPolling ==
    (last.op = "tick" /\ HealthyAndVersionError) =>
        /\ Untimed(last.out.conds) =
              << [type |-> "Available", status |-> "True",
                  reason |-> "", message |-> ""],
                 [type |-> "Progressing", status |-> "False",
                  reason |-> "", message |-> ""],
                 [type |-> "Failing", status |-> "True",
                  reason |-> "",
                  message |-> "error checking cluster-autoscaler-operator version "
                                  \o last.out.idv.err] >>
        /\ ~last.out.done
        /\ last.out.err = NoErr
        /\ pc \in {"started", "polling"}
        /\ ret = "none"

C15_Witness ==
    /\ last.op = "tick"
    /\ HealthyAndVersionError
    /\ last.out.branch = "version-error"
    /\ last.out.applyErr = ErrServer
    /\ pc = "polling"

\* the Fail set with a reason and a message
FailSet(reason, message) ==
    << [type |-> "Available", status |-> "True", reason |-> "", message |-> ""],
       [type |-> "Progressing", status |-> "False", reason |-> "", message |-> ""],
       [type |-> "Failing", status |-> "True", reason |-> reason,
        message |-> message] >>

\* the Progressing set with a reason and a message
ProgressingSet(reason, message) ==
    << [type |-> "Available", status |-> "True", reason |-> "", message |-> ""],
       [type |-> "Progressing", status |-> "True", reason |-> reason,
        message |-> message],
       [type |-> "Failing", status |-> "False", reason |-> "", message |-> ""] >>

\* the condition set of a tick as a function of its live inputs alone: the
\* result and error of the dependency check, and, when the comparison is
\* reached, the result and error of the version comparison
Synthesized(ok, checkErr, differs, versionErr) ==
    IF checkErr # NoErr
    THEN FailSet("MissingDependency",
                 "error checking machine-api operator status " \o checkErr)
    ELSE IF ~ok
    THEN FailSet("MissingDependency", "machine-api operator not ready")
    ELSE IF versionErr # NoErr
    THEN FailSet("", "error checking cluster-autoscaler-operator version "
                         \o versionErr)
    ELSE IF differs
    THEN ProgressingSet("SyncingResources", "Syncing to version operator: " \o Raw)
    ELSE AvailableSet

\* C17: the condition set a tick synthesizes is determined by the tick's live
\* inputs: whatever the record held before the tick and whatever the store
\* calls of the tick return, it is Synthesized of the dependency check's and
\* the version comparison's results, so two ticks with the same inputs
\* synthesize the same set.  What the record held before decides only
\* whether the tick writes.
C17_TickDependsOnLiveInputsOnly ==
    last.op = "tick" =>
        /\ Untimed(last.out.conds) =
              Synthesized(last.out.chk.ok, last.out.chk.err,
                          last.out.idv.differs, last.out.idv.err)
        /\ (last.out.chk.err # NoErr \/ ~last.out.chk.ok) <=> ~last.out.idv.called
        /\ (last.out.applyErr = NoErr /\ ~UpdateCalled(last.out.applyCalls)) =>
              /\ co = last.pre
              /\ Untimed(co.status.conditions) = Untimed(last.out.conds)

C17_Witness ==
    /\ last.op = "tick"
    /\ last.pre.exists
    /\ Untimed(last.pre.status.conditions) = AvailableSet
    /\ last.out.branch = "dependency-not-ready"
    /\ Untimed(co.status.conditions) =
          FailSet("MissingDependency", "machine-api operator not ready")

----------------------------------------------------------------------------
(* Properties of the three operator states *)

\* the statuses of the Available, Progressing and Failing conditions of a
\* list that holds each type once
Statuses(conds) ==
    << conds[FindIndex(conds, "Available", 1)].status,
       conds[FindIndex(conds, "Progressing", 1)].status,
       conds[FindIndex(conds, "Failing", 1)].status >>

\* the statuses that encode each state
StateOf(statuses) ==
    IF statuses = <<"True", "False", "False">> THEN "Available"
    ELSE IF statuses = <<"True", "True", "False">> THEN "Progressing"
    ELSE IF statuses = <<"True", "False", "True">> THEN "Fail"
    ELSE "none"

\* C16: in the status synthesized by Available, Fail or Progressing the
\* Available condition is True, Progressing and Failing are never both True,
\* and the statuses encode the state of the operation called and no other:
\* Available=True, Progressing=False, Failing=False comes from Available
\* alone.  After a write the stored record encodes that one state.
C16_StatesMutuallyExclusive ==
    last.op \in StateOps =>
        LET statuses == Statuses(last.out.status.conditions) IN
        /\ statuses[1] = "True"
        /\ ~(statuses[2] = "True" /\ statuses[3] = "True")
        /\ StateOf(statuses) = last.op
        /\ Written => StateOf(Statuses(co.status.conditions)) = last.op

C16_Witness ==
    /\ last.op = "Fail"
    /\ Written
    /\ last.pre.exists
    /\ Untimed(last.pre.status.conditions) = AvailableSet
    /\ StateOf(Statuses(co.status.conditions)) = "Fail"

----------------------------------------------------------------------------
(* Properties of the calls a tick makes *)

\* how often an API call occurs in a list of calls
CountCalls(calls, name) ==
    Cardinality({i \in 1..Len(calls) : calls[i] = name})

\* the status method of each branch of the poll function
MethodOfBranch ==
    [b \in {"dependency-error", "dependency-not-ready", "version-error",
            "progressing", "available"} |->
        IF b = "available" THEN "Available"
        ELSE IF b = "progressing" THEN "Progressing"
        ELSE "Fail"]

----------------------------------------------------------------------------
(* Properties of the fields ApplyConditions fills in *)

\* C13: every status ApplyConditions builds, and so every status it passes to
\* UpdateStatus and every status it stores, has the reporter's relatedObjects
\* as RelatedObjects, and no step changes the reporter's relatedObjects.
C13_RelatedObjectsCarried ==
    /\ [](last.op \in ApplyOps =>
            /\ last.out.status.relatedObjects = relatedObjects
            /\ Written => co.status.relatedObjects = relatedObjects)
    /\ [][relatedObjects' = relatedObjects]_vars

C13_Witness ==
    /\ last.op \in ApplyOps
    /\ Written
    /\ last.pre.exists
    /\ relatedObjects # <<>>
    /\ last.pre.status.relatedObjects # relatedObjects
    /\ co.status.relatedObjects = relatedObjects

\* the version list ApplyConditions writes
FixedVersions == Slice(<<[name |-> "cluster-autoscaler", version |-> Raw]>>)

\* the version list Report waits for
WantedVersions == Slice(<<[name |-> "operator", version |-> Raw]>>)

\* C19: a tick that writes leaves the one entry {cluster-autoscaler, build
\* version} as the version list of the stored record, whatever conditions it
\* applies and whatever versions were stored; and the list a tick's
\* IsDifferentVersions compares with the desired {operator, build version}
\* is the list stored when the tick began.
C19_FixedVersionWritten ==
    last.op = "tick" =>
        /\ (UpdateCalled(last.out.applyCalls) /\ last.out.applyErr = NoErr) =>
              co.status.versions = FixedVersions
        /\ (last.out.idv.called /\ last.out.idv.err = NoErr) =>
              (last.out.idv.differs <=> ObservedVersions # WantedVersions)

C19_Witness ==
    /\ last.op = "tick"
    /\ last.pre.exists
    /\ last.pre.status.versions = FixedVersions
    /\ last.pre.status.conditions # <<>>
    /\ last.pre.status.conditions[1].lastTransitionTime # ZeroTime
    /\ last.out.idv.called
    /\ last.out.idv.differs
    /\ UpdateCalled(last.out.applyCalls)
    /\ last.out.applyErr = NoErr
    /\ co.status.versions = FixedVersions

----------------------------------------------------------------------------
(* Properties of a successful Report *)

\* C20: when Report has returned success, the stored record holds the
\* Available set, written or found by the final tick, whatever the store
\* calls of that tick returned.
C20_SuccessMeansAvailableStored ==
    (pc = "success" /\ last.op = "tick") =>
        /\ co.exists
        /\ Untimed(co.status.conditions) = AvailableSet

====
